---- MODULE Spec2Model ----
(***************************************************************************)
(* Contact-form submission endpoint of the Deepak Dass portfolio:          *)
(* the Express route POST /api/contact of the backend guide                *)
(* (src/unnamed/part_000, lines 57-113) with its express-rate-limit        *)
(* limiter, its express-validator chains and its handler.                  *)
(*                                                                         *)
(* Text is a sequence of one-character strings.  A JSON value of a body    *)
(* field is a record [t, v]: t is its JSON type and v the text that        *)
(* JavaScript's string conversion gives for it.                            *)
(* Time is counted in ticks of half an hour.                               *)
(***************************************************************************)
EXTENDS Integers, Sequences, FiniteSets

VARIABLES now, store, req, hist, ui

vars == <<now, store, req, hist, ui>>

(***************************************************************************)
(* Bounds of the model                                                     *)
(***************************************************************************)
MaxTime == 2
MaxHits == 7
MaxOther == 1
MaxCalls == 2
MaxTimers == 2

(***************************************************************************)
(* Program constants                                                       *)
(***************************************************************************)
\* windowMs: 60 * 60 * 1000, one hour = 2 ticks
windowMs == 2
\* max: 5
max == 5
NameMin == 2
NameMax == 100
SubjectMin == 5
SubjectMax == 200
MessageMin == 10
MessageMax == 2000

Addrs == {"ip1", "ip2"}
Slots == <<"c1", "c2">>
SlotSet == {"c1", "c2"}
Fields == <<"name", "email", "subject", "message">>
FieldSet == {"name", "email", "subject", "message"}

(***************************************************************************)
(* Text                                                                    *)
(***************************************************************************)
Rep(c, n) == [i \in 1..n |-> c]

IsSpace(c) == c = " "

RECURSIVE TrimLeft(_)
TrimLeft(s) ==
    IF s # <<>> /\ IsSpace(Head(s)) THEN TrimLeft(Tail(s)) ELSE s

RECURSIVE TrimRight(_)
TrimRight(s) ==
    IF s # <<>> /\ IsSpace(s[Len(s)]) THEN TrimRight(SubSeq(s, 1, Len(s) - 1)) ELSE s

\* one blank removed at each end
TrimOnce(s) ==
    LET l == IF s # <<>> /\ IsSpace(Head(s)) THEN Tail(s) ELSE s
    IN  IF l # <<>> /\ IsSpace(l[Len(l)]) THEN SubSeq(l, 1, Len(l) - 1) ELSE l

\* validator.js trim(): whitespace removed at both ends
Trim(s) == TrimRight(TrimLeft(s))

\* validator.js isLength({min, max})
IsLength(s, lo, hi) == Len(s) >= lo /\ Len(s) <= hi

LowerChar(c) ==
    CASE c = "J" -> "j"
      [] c = "D" -> "d"
      [] c = "E" -> "e"
      [] c = "H" -> "h"
      [] c = "T" -> "t"
      [] OTHER -> c

ToLowerCase(s) == [i \in 1..Len(s) |-> LowerChar(s[i])]

\* position of the last occurrence of c in s, 0 when there is none
LastIndexOf(s, c) ==
    LET I == {i \in 1..Len(s) : s[i] = c}
    IN  IF I = {} THEN 0 ELSE CHOOSE i \in I : \A j \in I : j <= i

CountOf(s, c) == Cardinality({i \in 1..Len(s) : s[i] = c})

\* the part before the last "@" (str.split('@'), pop, join)
UserPart(s) ==
    LET k == LastIndexOf(s, "@")
    IN  IF k = 0 THEN <<>> ELSE SubSeq(s, 1, k - 1)

\* the part after the last "@"; the whole text when there is no "@"
DomainPart(s) ==
    LET k == LastIndexOf(s, "@")
    IN  SubSeq(s, k + 1, Len(s))

NoSpace(s) == \A i \in 1..Len(s) : ~IsSpace(s[i])

\* validator.js isFQDN: at least two labels, none empty, a top-level
\* label of two characters or more, no whitespace
IsFQDN(d) ==
    LET k == LastIndexOf(d, ".")
    IN  /\ k > 1
        /\ Len(d) - k >= 2
        /\ NoSpace(d)
        /\ \A i \in 1..(Len(d) - 1) : ~(d[i] = "." /\ d[i + 1] = ".")
        /\ d[1] # "."

\* validator.js isEmail: user@domain, one "@", a non-empty user part
\* without whitespace and a fully qualified domain
IsEmail(s) ==
    /\ CountOf(s, "@") = 1
    /\ UserPart(s) # <<>>
    /\ NoSpace(UserPart(s))
    /\ IsFQDN(DomainPart(s))

\* validator.js normalizeEmail with its defaults on a domain that has no
\* provider rule: both parts in lower case, joined by "@"
NormalizeEmail(s) ==
    ToLowerCase(UserPart(s)) \o <<"@">> \o ToLowerCase(DomainPart(s))

(***************************************************************************)
(* JSON values of the request body                                         *)
(***************************************************************************)
Str(s) == [t |-> "string", v |-> s]
Num(s) == [t |-> "number", v |-> s]
Undefined == [t |-> "undefined", v |-> <<>>]

\* express-validator toString(): '' for a missing value, String(value) else
ToString(x) == IF x.t = "undefined" THEN <<>> ELSE x.v

IsText(x) == x.t = "string"

(***************************************************************************)
(* Payloads the clients send                                               *)
(***************************************************************************)
JaneDoe == <<"J", "a", "n", "e", " ", "D", "o", "e">>
JaneEmail == <<"j", "a", "n", "e", "@", "e", "x", "a", "m", "p", "l", "e", ".", "c", "o", "m">>
HelloThere == <<"H", "e", "l", "l", "o", " ", "t", "h", "e", "r", "e">>
TestMessage == <<"T", "e", "s", "t", " ", "m", "e", "s", "s", "a", "g", "e">>
InvalidEmail == <<"i", "n", "v", "a", "l", "i", "d", "-", "e", "m", "a", "i", "l">>

Payload(n, e, s, m) == [name |-> n, email |-> e, subject |-> s, message |-> m]

Samples == <<
    \* the valid submission, the name padded, capitals in the address
    Payload(Str(<<" ", " ">> \o JaneDoe \o <<" ">>),
            Str(<<"J", "a", "n", "e", "@", "E", "x", "a", "m", "p", "l", "e", ".", "c", "o", "m">>),
            Str(HelloThere), Str(TestMessage)),
    \* name and message missing, subject "Test"
    Payload(Undefined, Str(JaneEmail), Str(<<"T", "e", "s", "t">>), Undefined),
    \* "invalid-email" together with the subject "Hi"
    Payload(Str(JaneDoe), Str(InvalidEmail), Str(<<"H", "i">>), Str(TestMessage)),
    \* a number where the name is expected, the subject "Hi"
    Payload(Num(<<"1", "2", "3", "4", "5">>), Str(JaneEmail), Str(<<"H", "i">>), Str(TestMessage)),
    \* markup around a one-letter name, a blank after the address
    Payload(Str(<<"<", "b", ">", "J", "<", "/", "b", ">">>), Str(JaneEmail \o <<" ">>),
            Str(HelloThere), Str(TestMessage)),
    \* too long a name, a padded subject, too long a message
    Payload(Str(Rep("n", NameMax + 1)), Str(<<"J", "@", "E", ".", "c", "o">>),
            Str(<<" ", " ", "H", "i", " ", " ", " ">>), Str(Rep("m", MessageMax + 1)))
>>

TransportErrors == {"ECONNREFUSED", "EAUTH"}

(***************************************************************************)
(* express-validator chains of the route                                   *)
(***************************************************************************)
\* body('name').trim().isLength({ min: 2, max: 100 })
NameChain(x) ==
    LET v == Trim(ToString(x))
    IN  [value |-> Str(v), ok |-> IsLength(v, NameMin, NameMax)]

\* body('email').isEmail().normalizeEmail()
EmailChain(x) ==
    LET v == ToString(x)
    IN  [value |-> Str(NormalizeEmail(v)), ok |-> IsEmail(v)]

\* body('subject').trim().isLength({ min: 5, max: 200 })
SubjectChain(x) ==
    LET v == Trim(ToString(x))
    IN  [value |-> Str(v), ok |-> IsLength(v, SubjectMin, SubjectMax)]

\* body('message').trim().isLength({ min: 10, max: 2000 })
MessageChain(x) ==
    LET v == Trim(ToString(x))
    IN  [value |-> Str(v), ok |-> IsLength(v, MessageMin, MessageMax)]

Chain(f, x) ==
    CASE f = "name" -> NameChain(x)
      [] f = "email" -> EmailChain(x)
      [] f = "subject" -> SubjectChain(x)
      [] f = "message" -> MessageChain(x)

FieldError(f) == [field |-> f, message |-> "Invalid value"]

\* validationResult(req).array(): one entry per failed chain, in the
\* order of the chains
RECURSIVE ErrorsFrom(_, _)
ErrorsFrom(body, i) ==
    IF i > Len(Fields) THEN <<>>
    ELSE (IF Chain(Fields[i], body[Fields[i]]).ok THEN <<>> ELSE <<FieldError(Fields[i])>>)
         \o ErrorsFrom(body, i + 1)

validationResult(body) == ErrorsFrom(body, 1)

\* req.body after the sanitizers of the chains have run
Sanitized(body) == [f \in FieldSet |-> Chain(f, body[f]).value]

(***************************************************************************)
(* express-rate-limit with its in-memory store                             *)
(***************************************************************************)
NoClient == [totalHits |-> 0, resetTime |-> 0]

\* one client for all the addresses
KeyShared(a) == "ip1"

\* keyGenerator of the limiter: the address of the request
Key(a) == a

\* a client whose window is over is reset on the next lookup
Expired(client, t) == client.resetTime <= t

\* a new window of twice the length
resetClientLong(t) == [totalHits |-> 0, resetTime |-> t + 2 * windowMs]

resetClient(t) == [totalHits |-> 0, resetTime |-> t + windowMs]

\* the count written back without the increment
incrementStale(client, t) ==
    IF client.resetTime <= t THEN [totalHits |-> 0, resetTime |-> t + windowMs] ELSE client

\* hits above the limit are not counted
incrementUnlessFull(client, t) ==
    LET c == IF client.resetTime <= t THEN [totalHits |-> 0, resetTime |-> t + windowMs]
             ELSE client
    IN  IF c.totalHits > max THEN c ELSE [c EXCEPT !.totalHits = @ + 1]

\* MemoryStore.increment(key)
increment(client, t) ==
    LET c == IF Expired(client, t) THEN resetClient(t) ELSE client
    IN  [c EXCEPT !.totalHits = @ + 1]

\* the limit reached one hit early
ExceededAtMax(totalHits) == totalHits >= max

\* the limiter answers 429 when the hits of the window exceed max
Exceeded(totalHits) == totalHits > max

(***************************************************************************)
(* Responses                                                               *)
(***************************************************************************)
NoData == <<>>

Response(st, ok, msg, errs, retry, d) ==
    [status |-> st, success |-> ok, message |-> msg, errors |-> errs,
     retryAfter |-> retry, data |-> d]

NoResponse == Response(0, FALSE, "", <<>>, 0, NoData)

\* express-rate-limit: 429 with Retry-After, the time to the reset of the window
TooManyRequests(client, t) ==
    Response(429, FALSE, "Too many requests, please try again later.", <<>>,
             client.resetTime - t, NoData)

\* res.status(400).json({ success: false, message: 'Validation error', errors })
ValidationError(errs) == Response(400, FALSE, "Validation error", errs, 0, NoData)

\* res.json({ success: true, message: 'Message sent successfully' })
Success == Response(200, TRUE, "Message sent successfully", <<>>, 0, NoData)

\* the message of the caught error passed on
ServerErrorLeaks(error) == Response(500, FALSE, error, <<>>, 0, NoData)

\* res.status(500).json({ success: false, message: 'Error sending message' })
ServerError(error) == Response(500, FALSE, "Error sending message", <<>>, 0, NoData)

(***************************************************************************)
(* State                                                                   *)
(*   now    the clock                                                      *)
(*   store  the limiter's client of every source address                   *)
(*   req    the requests in flight, one per slot                           *)
(*   hist   per source address, what has been observed of its requests     *)
(***************************************************************************)
NoBody == [f \in FieldSet |-> Undefined]

\* what is recorded about a request for the properties
\* attempts counts the calls of the email transport made for the request
NoTrace == [sample |-> 0, receivedAt |-> 0, mutations |-> 0, attempts |-> 0,
            sendError |-> ""]

IdleReq == [pc |-> "idle", ip |-> "", body |-> NoBody, errors |-> <<>>,
            res |-> NoResponse, g |-> NoTrace]

\*   lastHit     time of its latest request, -1 before the first
\*   blocked     its latest request was answered 429
\*   recovered   its latest request came a window or more after a 429
\*   passed      times, within the last window, of the requests let through
\*   winPasses   requests let through in the current window of its client
\*   burstStart  time of the latest request that found no request of the
\*               address in the window before it
\*   burstN      number of requests since then, while they fall in the
\*               window that started at burstStart; 0 afterwards
NoHist == [lastHit |-> -1, blocked |-> FALSE, recovered |-> FALSE, passed |-> <<>>,
           winPasses |-> 0, burstStart |-> 0, burstN |-> 0]

(***************************************************************************)
(* The contact form of the page (assets/js/main.js)                        *)
(*   ui.form    the text in the four inputs                                *)
(*   ui.btn     the submit button: disabled, and the text of its label     *)
(*   ui.msg     the message box: text, type and style.display              *)
(*   ui.timers  the hide timers of the message box that have not fired     *)
(*   ui.shownFor  the response the text of the message box was written     *)
(*              for, none when it was written before any request           *)
(*   ui.calls   the runs of the submit handler that wait for the server    *)
(*   ui.nav     the class 'active' on navMenu and on navToggle             *)
(*   ui.activeLink  the href of the nav link that has the class 'active'   *)
(***************************************************************************)
CallSet == 1..MaxCalls

SendLabel == "Send Message"
SendingLabel == "Sending..."
FillText == "Please fill in all fields."
EmailText == "Please enter a valid email address."
SentText == "Message sent successfully! I'll get back to you soon."
SorryText == "Sorry, there was an error sending your message. Please try again or email me directly."

\* what the visitor types into an input
FormValues(f) ==
    CASE f = "name"  -> {<<>>, <<" ">>, <<"J">>}
      [] f = "email" -> {<<>>, <<"j", "@", "e", ".", "c">>, <<" ", "j", "@", "e", ".", "c">>,
                         <<"j", "@", "e">>}
      [] OTHER       -> {<<>>, <<"H", "i">>}

EmptyForm == [f \in FieldSet |-> <<>>]

\* /^[^\s@]+@[^\s@]+\.[^\s@]+$/ : one "@", no whitespace, text before the
\* "@", and after it a "." with text on both sides
EmailRegexTest(e) ==
    /\ NoSpace(e)
    /\ CountOf(e, "@") = 1
    /\ UserPart(e) # <<>>
    /\ \E i \in 2..(Len(DomainPart(e)) - 1) : DomainPart(e)[i] = "."

\* what fetch resolves with: status and ok of the response, the message of
\* its body, and whether the body parses as JSON
FetchResponse(res, parses) ==
    [status |-> res.status, ok |-> res.status \in 200..299,
     message |-> IF parses THEN res.message ELSE "", json |-> parses]

\* the answers of the API, the plain text answer of the limiter, a JSON
\* body without a message and the page of a host that has no such route
HttpResponses ==
    { FetchResponse(Success, TRUE),
      FetchResponse(ValidationError(<<>>), TRUE),
      FetchResponse(ServerError("EAUTH"), TRUE),
      FetchResponse(TooManyRequests(NoClient, 0), FALSE),
      FetchResponse(Response(502, FALSE, "", <<>>, 0, NoData), TRUE),
      FetchResponse(Response(200, FALSE, "", <<>>, 0, NoData), FALSE) }

NoFetchResponse == FetchResponse(NoResponse, FALSE)

IdleCall == [pc |-> "idle", originalBtnText |-> "", response |-> NoFetchResponse]

NoMsg == [text |-> "", type |-> "", display |-> "none"]

\* the links of class nav-link: the href, whether the page has the
\* section it names, and whether the link lies within navMenu
NavLinks ==
    { [href |-> "#about", target |-> TRUE, inMenu |-> TRUE],
      [href |-> "#gone", target |-> FALSE, inMenu |-> TRUE],
      [href |-> "#home", target |-> TRUE, inMenu |-> FALSE] }

NavClosed == [menu |-> FALSE, toggle |-> FALSE]

\* the page as loaded
InitUI ==
    [form |-> EmptyForm,
     btn |-> [disabled |-> FALSE, text |-> SendLabel],
     msg |-> NoMsg,
     timers |-> 0,
     shownFor |-> NoFetchResponse,
     calls |-> [i \in CallSet |-> IdleCall],
     nav |-> NavClosed,
     activeLink |-> ""]

Init ==
    /\ now = 0
    /\ store = [a \in Addrs |-> NoClient]
    /\ req = [s \in SlotSet |-> IdleReq]
    /\ hist = [a \in Addrs |-> NoHist]
    /\ ui = InitUI

\* hits the window of a source address holds at time t
LiveHits(a, t) == IF Expired(store[Key(a)], t) THEN 0 ELSE store[Key(a)].totalHits

\* the model follows one address up to MaxHits requests a window and the
\* others up to MaxOther
Cap(a) == IF a = "ip1" THEN MaxHits ELSE MaxOther

\* a limiter that keeps its store to itself until the request it let
\* through has been answered
RunningLocked == {s \in SlotSet : req[s].pc \in {"validate", "handler", "sending", "done"}}

\* The requests whose middleware is on the call stack.  The store of the
\* limiter is in memory and the chains do no input or output, so the run
\* from the limiter to the first await of the handler, and the one that
\* writes the response, are not interleaved with another request or timer.
Running == {s \in SlotSet : req[s].pc \in {"validate", "handler", "done"}}

\* the first connection that carries no request; "" when all are busy
FreeSlot ==
    LET I == {i \in 1..Len(Slots) : req[Slots[i]].pc = "idle"}
    IN  IF I = {} THEN "" ELSE Slots[CHOOSE i \in I : \A j \in I : i <= j]

\* A client posts the JSON body Samples[k] to /api/contact from address a.
\* The limiter middleware: one increment of the client of the address,
\* then 429 or next()
Limiter(s, a, k) ==
    /\ Running = {}
    /\ s = FreeSlot
    /\ LiveHits(a, now) < Cap(a)
    /\ LET h == hist[a]
           client == increment(store[Key(a)], now)
           over == Exceeded(client.totalHits)
           empty == h.lastHit < 0 \/ now - h.lastHit >= windowMs
           n == IF empty THEN 1
                ELSE IF h.burstN > 0 /\ now < h.burstStart + windowMs
                     THEN h.burstN + 1 ELSE 0
       IN  /\ store' = [store EXCEPT ![Key(a)] = client]
           /\ hist' = [hist EXCEPT ![a] =
                         [lastHit |-> now,
                          blocked |-> over,
                          recovered |-> h.blocked /\ now - h.lastHit >= windowMs,
                          winPasses |-> (IF Expired(store[Key(a)], now) THEN 0 ELSE h.winPasses)
                                        + (IF over THEN 0 ELSE 1),
                          passed |-> IF over THEN h.passed ELSE Append(h.passed, now),
                          burstStart |-> IF n > 0 /\ ~empty THEN h.burstStart
                                         ELSE IF empty THEN now ELSE 0,
                          burstN |-> n]]
           /\ req' = [req EXCEPT ![s] =
                        [IdleReq EXCEPT
                           !.pc = IF over THEN "done" ELSE "validate",
                           !.ip = a,
                           !.body = Samples[k],
                           !.res = IF over THEN TooManyRequests(client, now) ELSE @,
                           !.g = [sample |-> k, receivedAt |-> now,
                                  mutations |-> IF client # store[Key(a)] THEN 1 ELSE 0,
                                  attempts |-> 0,
                                  sendError |-> ""]]]
    /\ UNCHANGED <<now, ui>>

\* the four validation chains run on req.body
Validators(s) ==
    /\ req[s].pc = "validate"
    /\ req' = [req EXCEPT ![s].pc = "handler",
                          ![s].errors = validationResult(req[s].body),
                          ![s].body = Sanitized(req[s].body)]
    /\ UNCHANGED <<now, store, hist, ui>>

\* a handler that starts the sending before it looks at the errors
HandlerSendsFirst(s) ==
    /\ req[s].pc = "handler"
    /\ IF req[s].errors # <<>>
       THEN req' = [req EXCEPT ![s].pc = "done", ![s].g.attempts = @ + 1,
                               ![s].res = ValidationError(req[s].errors)]
       ELSE req' = [req EXCEPT ![s].pc = "sending", ![s].g.attempts = @ + 1]
    /\ UNCHANGED <<now, store, hist, ui>>

\* the handler up to the sending of the email
Handler(s) ==
    /\ req[s].pc = "handler"
    /\ IF req[s].errors # <<>>
       THEN req' = [req EXCEPT ![s].pc = "done",
                               ![s].res = ValidationError(req[s].errors)]
       ELSE req' = [req EXCEPT ![s].pc = "sending", ![s].g.attempts = @ + 1]
    /\ UNCHANGED <<now, store, hist, ui>>

\* the email is sent: the try block ends with res.json
SendOk(s) ==
    /\ Running = {}
    /\ req[s].pc = "sending"
    /\ req' = [req EXCEPT ![s].pc = "done", ![s].res = Success]
    /\ UNCHANGED <<now, store, hist, ui>>

\* a sending that is tried again after it throws, five times over
SendFailRetry(s, error) ==
    /\ Running = {}
    /\ req[s].pc = "sending"
    /\ req' = IF req[s].g.attempts < 5
                THEN [req EXCEPT ![s].g.attempts = @ + 1]
                ELSE [req EXCEPT ![s].pc = "done", ![s].res = ServerError(error),
                                 ![s].g.sendError = error]
    /\ UNCHANGED <<now, store, hist, ui>>

\* the sending throws: the catch block answers
SendFail(s, error) ==
    /\ Running = {}
    /\ req[s].pc = "sending"
    /\ req' = [req EXCEPT ![s].pc = "done", ![s].res = ServerError(error),
                          ![s].g.sendError = error]
    /\ UNCHANGED <<now, store, hist, ui>>

\* the response has gone out and the request is over
Close(s) ==
    /\ req[s].pc = "done"
    /\ req' = [req EXCEPT ![s] = IdleReq]
    /\ UNCHANGED <<now, store, hist, ui>>

\* half an hour passes
Tick ==
    /\ Running = {}
    /\ now < MaxTime
    /\ now' = now + 1
    /\ hist' = [a \in Addrs |->
                  [hist[a] EXCEPT !.passed =
                     SelectSeq(@, LAMBDA t : t > now + 1 - windowMs)]]
    /\ UNCHANGED <<store, req, ui>>

Next ==
    \/ \E s \in SlotSet, a \in Addrs, k \in 1..Len(Samples) : Limiter(s, a, k)
    \/ \E s \in SlotSet : Validators(s)
    \/ \E s \in SlotSet : Handler(s)
    \/ \E s \in SlotSet : SendOk(s)
    \/ \E s \in SlotSet, error \in TransportErrors : SendFail(s, error)
    \/ \E s \in SlotSet : Close(s)
    \/ Tick

Spec == Init /\ [][Next]_vars

\* the middleware on the call stack runs on
RunStep == \E s \in SlotSet : Validators(s) \/ Handler(s) \/ Close(s)

\* the call of the transport made for the request of connection s returns
SendStep(s) == SendOk(s) \/ \E error \in TransportErrors : SendFail(s, error)

\* the requests of one address that carry the valid submission
NextDispatch ==
    \/ \E s \in SlotSet : Limiter(s, "ip1", 1)
    \/ \E s \in SlotSet : Validators(s)
    \/ \E s \in SlotSet : Handler(s)
    \/ \E s \in SlotSet : SendOk(s)
    \/ \E s \in SlotSet, error \in TransportErrors : SendFail(s, error)
    \/ \E s \in SlotSet : Close(s)
    \/ Tick

\* The code on the call stack runs to its end and the transport answers
\* every call
FairSpec ==
    /\ Init
    /\ [][NextDispatch]_vars
    /\ WF_vars(RunStep)
    /\ \A s \in SlotSet : WF_vars(SendStep(s))

(***************************************************************************)
(* The submit handler of the contact form                                  *)
(***************************************************************************)
\* showFormMessage(message, type): the box shows the message and a timer
\* is set that hides it
showFormMessage(u, message, type) ==
    [u EXCEPT !.msg = [text |-> message, type |-> type, display |-> "block"],
              !.timers = @ + 1,
              !.shownFor = NoFetchResponse]

\* the button keeps taking submit events while the label says "Sending..."
SetSendingOnly(u) == [u EXCEPT !.btn.text = SendingLabel]

\* submitBtn.disabled = true; the label becomes 'Sending...'
SetSending(u) == [u EXCEPT !.btn = [disabled |-> TRUE, text |-> SendingLabel]]

\* the catch block showing the message of the error it caught
CatchShowsError(u, error) == showFormMessage(u, error, "error")

\* catch (error): the error goes to the console, the box shows the apology
Catch(u, error) == showFormMessage(u, SorryText, "error")

\* a finally block that leaves the button as it is
FinallyKeeps(u, i) == [u EXCEPT !.calls[i] = IdleCall]

\* finally: the button is enabled and has the label it had at the submit
Finally(u, i) ==
    [u EXCEPT !.btn = [disabled |-> FALSE, text |-> u.calls[i].originalBtnText],
              !.calls[i] = IdleCall]

InFlight == {i \in CallSet : ui.calls[i].pc # "idle"}

FreeCall == CHOOSE i \in CallSet \ InFlight : \A j \in CallSet \ InFlight : i <= j

\* the visitor changes the text of an input
Type(f, v) ==
    /\ ui.form[f] # v
    /\ ui' = [ui EXCEPT !.form[f] = v]
    /\ UNCHANGED <<now, store, req, hist>>

\* a submit handler that posts whatever the email input holds
SubmitUnchecked ==
    /\ ~ui.btn.disabled
    /\ InFlight # CallSet
    /\ ui.timers + Cardinality(InFlight) < MaxTimers
    /\ LET formData == [f \in FieldSet |-> Trim(ui.form[f])]
       IN  ui' = IF \E f \in FieldSet : formData[f] = <<>>
                 THEN showFormMessage(ui, FillText, "error")
                 ELSE [SetSending(ui) EXCEPT
                          !.calls[FreeCall] = [pc |-> "fetch",
                                               originalBtnText |-> ui.btn.text,
                                               response |-> NoFetchResponse]]
    /\ UNCHANGED <<now, store, req, hist>>

\* The submit event, up to the first await.  The browser sends no submit
\* event from a disabled submit button.
Submit ==
    /\ ~ui.btn.disabled
    /\ InFlight # CallSet
    /\ ui.timers + Cardinality(InFlight) < MaxTimers
    /\ LET formData == [f \in FieldSet |-> Trim(ui.form[f])]
       IN  ui' = IF \E f \in FieldSet : formData[f] = <<>>
                 THEN showFormMessage(ui, FillText, "error")
                 ELSE IF ~EmailRegexTest(formData.email)
                 THEN showFormMessage(ui, EmailText, "error")
                 ELSE [SetSending(ui) EXCEPT
                          !.calls[FreeCall] = [pc |-> "fetch",
                                               originalBtnText |-> ui.btn.text,
                                               response |-> NoFetchResponse]]
    /\ UNCHANGED <<now, store, req, hist>>

\* fetch resolves with a response, whatever its status
FetchResolved(i, r) ==
    /\ ui.calls[i].pc = "fetch"
    /\ ui' = [ui EXCEPT !.calls[i].pc = "json", !.calls[i].response = r]
    /\ UNCHANGED <<now, store, req, hist>>

\* fetch rejects: no response, the catch and the finally block run
FetchRejected(i) ==
    /\ ui.calls[i].pc = "fetch"
    /\ ui' = Finally(Catch(ui, "Failed to fetch"), i)
    /\ UNCHANGED <<now, store, req, hist>>

\* response.json() resolves with the body
JsonParsed(i) ==
    /\ ui.calls[i].pc = "json"
    /\ ui.calls[i].response.json
    /\ LET r == ui.calls[i].response
           u == IF r.ok
                 THEN Finally([showFormMessage(ui, SentText, "success")
                                  EXCEPT !.form = EmptyForm], i)
                 ELSE Finally(Catch(ui, IF r.message # "" THEN r.message
                                        ELSE "Failed to send message"), i)
       IN  ui' = [u EXCEPT !.shownFor = r]
    /\ UNCHANGED <<now, store, req, hist>>

\* response.json() rejects: the body is no JSON
JsonFailed(i) ==
    /\ ui.calls[i].pc = "json"
    /\ ~ui.calls[i].response.json
    /\ ui' = [Finally(Catch(ui, "Unexpected token"), i)
                 EXCEPT !.shownFor = ui.calls[i].response]
    /\ UNCHANGED <<now, store, req, hist>>

\* a timer set by showFormMessage fires
HideTimer ==
    /\ ui.timers > 0
    /\ ui' = [ui EXCEPT !.timers = @ - 1, !.msg.display = "none"]
    /\ UNCHANGED <<now, store, req, hist>>

(***************************************************************************)
(* The mobile navigation.  A click runs the listener of the element that   *)
(* was clicked and then, bubbling, the listener of the document.  A click  *)
(* within the menu beside its links runs no code that changes the page.    *)
(***************************************************************************)
\* a toggle listener that leaves the class of navToggle alone
ToggleMenuOnly(u) == [u EXCEPT !.nav.menu = ~@]

\* navToggle click: classList.toggle('active') on navMenu and on navToggle
ToggleNav(u) == [u EXCEPT !.nav.menu = ~@, !.nav.toggle = ~@]

\* document click: both classes removed unless the target lies within
\* navMenu or navToggle
CloseOutside(u, inMenu, inToggle) ==
    IF ~inMenu /\ ~inToggle THEN [u EXCEPT !.nav = NavClosed] ELSE u

\* nav-link click: when the section exists the page scrolls to it, an
\* open menu is closed and the link becomes the active one
LinkClick(u, l) ==
    IF l.target
    THEN [u EXCEPT !.nav = IF u.nav.menu THEN NavClosed ELSE @,
                   !.activeLink = l.href]
    ELSE u

ClickToggle ==
    /\ ui' = CloseOutside(ToggleNav(ui), FALSE, TRUE)
    /\ UNCHANGED <<now, store, req, hist>>

ClickLink(l) ==
    /\ ui' = CloseOutside(LinkClick(ui, l), l.inMenu, FALSE)
    /\ UNCHANGED <<now, store, req, hist>>

ClickOutside ==
    /\ ui' = CloseOutside(ui, FALSE, FALSE)
    /\ UNCHANGED <<now, store, req, hist>>

NextUI ==
    \/ ClickToggle
    \/ \E l \in NavLinks : ClickLink(l)
    \/ ClickOutside
    \/ \E f \in FieldSet : \E v \in FormValues(f) : Type(f, v)
    \/ Submit
    \/ \E i \in CallSet, r \in HttpResponses : FetchResolved(i, r)
    \/ \E i \in CallSet : FetchRejected(i)
    \/ \E i \in CallSet : JsonParsed(i)
    \/ \E i \in CallSet : JsonFailed(i)
    \/ HideTimer

SpecUI == Init /\ [][NextUI]_vars

\* a promise the handler awaits settles
Settle(i) ==
    \/ \E r \in HttpResponses : FetchResolved(i, r)
    \/ FetchRejected(i)
    \/ JsonParsed(i)
    \/ JsonFailed(i)

FairSpecUI == SpecUI /\ \A i \in CallSet : WF_vars(Settle(i))

TypeOK ==
    /\ now \in 0..MaxTime
    /\ \A a \in Addrs : store[a].totalHits \in 0..MaxHits
    /\ \A s \in SlotSet : req[s].pc \in {"idle", "validate", "handler", "sending", "done"}
    /\ ui.timers \in 0..MaxTimers
    /\ \A i \in CallSet : ui.calls[i].pc \in {"idle", "fetch", "json"}
    /\ ui.msg.display \in {"none", "block"}

(***************************************************************************)
(* What the API specification of the guide asks of a payload               *)
(***************************************************************************)
\* i lies in a tag "<" ... ">" of s
InTag(s, i) ==
    \E j \in 1..i :
        /\ s[j] = "<"
        /\ \A m \in j..(i - 1) : s[m] # ">"
        /\ \E k \in i..Len(s) : s[k] = ">"

\* "Strip HTML tags from all input fields"
StripMarkup(s) ==
    IF CountOf(s, "<") = 0 THEN s
    ELSE LET K == {i \in 1..Len(s) : ~InTag(s, i)}
         IN  [n \in 1..Cardinality(K) |->
                s[CHOOSE i \in K : Cardinality({j \in K : j <= i}) = n]]

\* trim every field, strip markup from name, subject and message, the
\* email in lower case
SpecSanitize(f, v) ==
    IF f = "email" THEN ToLowerCase(Trim(v)) ELSE StripMarkup(Trim(v))

\* the constraint of the field f on the text v
Violates(f, v) ==
    CASE f = "name" -> ~(Len(v) >= 2 /\ Len(v) <= 100)
      [] f = "email" -> ~IsEmail(v)
      [] f = "subject" -> ~(Len(v) >= 5 /\ Len(v) <= 200)
      [] f = "message" -> ~(Len(v) >= 10 /\ Len(v) <= 2000)

\* all four fields are present and are text
Complete(p) == \A f \in FieldSet : IsText(p[f])

ValidPayload(p) ==
    /\ Complete(p)
    /\ \A f \in FieldSet : ~Violates(f, SpecSanitize(f, p[f].v))

\* the payload the request of connection s was sent with
Raw(s) == Samples[req[s].g.sample]

Done(s) == req[s].pc = "done"

ErrorFields(res) == {res.errors[i].field : i \in 1..Len(res.errors)}

\* a request with a valid payload that the limiter let through and whose
\* email went out is answered 200
AcceptedIs200 ==
    \A s \in SlotSet :
        (Done(s) /\ ValidPayload(Raw(s)) /\ req[s].res.status # 429
                 /\ req[s].g.sendError = "")
            => req[s].res.status = 200

(***************************************************************************)
(* Properties                                                              *)
(***************************************************************************)
\* C1: a valid payload from an address below its quota, the email
\* delivered, is answered 200 with success = true, a non-empty data.id and
\* a data.timestamp equal to the time the request was received.
C1_SuccessResult ==
    \A s \in SlotSet :
        (Done(s) /\ ValidPayload(Raw(s)) /\ req[s].res.status # 429
                 /\ req[s].g.sendError = "")
            => /\ req[s].res.status = 200
               /\ req[s].res.success
               /\ Len(req[s].res.data) = 1
               /\ req[s].res.data[1].id # ""
               /\ req[s].res.data[1].timestamp = req[s].g.receivedAt

\* C2: of six requests of one address within an hour, the first of them
\* finding an empty window, the first five pass the limiter (and are
\* answered 200 when valid and delivered) and the sixth is answered 429
\* with a retry delay above zero.
C2_SixRequests ==
    /\ [][\A s \in SlotSet :
            (req[s].pc = "idle" /\ req'[s].pc # "idle") =>
                /\ hist'[req'[s].ip].burstN \in 1..5 => req'[s].pc = "validate"
                /\ hist'[req'[s].ip].burstN = 6 =>
                      /\ req'[s].pc = "done"
                      /\ req'[s].res.status = 429
                      /\ req'[s].res.retryAfter > 0]_vars
    /\ [](AcceptedIs200)

C2_Witness ==
    \E s \in SlotSet :
        /\ Done(s)
        /\ req[s].res.status = 429
        /\ req[s].res.retryAfter > 0
        /\ hist[req[s].ip].burstN = 6

\* C3: at any time the requests of one address that were let through
\* within the last hour are five at most.
C3_RollingCeiling ==
    \A a \in Addrs : Len(hist[a].passed) <= 5

\* C4: a request of an address that was answered 429 and then sent nothing
\* for an hour passes the limiter, and is answered 200 when it is valid and
\* its email goes out.
C4_UnblockedAfterWindow ==
    \A s \in SlotSet :
        (/\ req[s].pc # "idle"
         /\ hist[req[s].ip].recovered
         /\ hist[req[s].ip].lastHit = req[s].g.receivedAt)
            => /\ req[s].res.status # 429
               /\ ~hist[req[s].ip].blocked
               /\ (Done(s) /\ ValidPayload(Raw(s)) /\ req[s].g.sendError = "")
                     => req[s].res.status = 200

C4_Witness ==
    \E s \in SlotSet :
        /\ Done(s)
        /\ hist[req[s].ip].recovered
        /\ hist[req[s].ip].lastHit = req[s].g.receivedAt
        /\ req[s].res.status = 200

C6_MissingFieldsAllReported ==
    \A s \in SlotSet :
        (Done(s) /\ ~Complete(Raw(s)))
            => /\ req[s].res.status = 400
               /\ \A f \in FieldSet :
                     ~IsText(Raw(s)[f]) => f \in ErrorFields(req[s].res)

\* C7: in the 400 answer to a complete payload, the errors name a field
\* exactly when its sanitized value violates its constraint.
C7_ErrorsExactlyViolations ==
    \A s \in SlotSet :
        (Done(s) /\ req[s].res.status = 400 /\ Complete(Raw(s)))
            => \A f \in FieldSet :
                  f \in ErrorFields(req[s].res)
                      <=> Violates(f, SpecSanitize(f, Raw(s)[f].v))

\* C8: a request answered 400 has left the count of its address alone, a
\* request answered 200 or 500 has incremented it once.
C8_CountOnlyAfterValidation ==
    \A s \in SlotSet :
        Done(s) =>
            /\ req[s].res.status = 400 => req[s].g.mutations = 0
            /\ req[s].res.status \in {200, 500} => req[s].g.mutations = 1

C12_NoDoubleSubmission ==
    /\ Cardinality(InFlight) <= 1
    /\ InFlight # {} => ui.btn.disabled

\* a second submission waits for its answer after the first was answered
C12_Witness ==
    /\ \E i \in CallSet : ui.calls[i].pc = "fetch"
    /\ ui.btn.disabled
    /\ ui.msg.text = SentText

\* C13: the text the message box got when a response was handled is the
\* message of the body of that response.
C13_ShowsReturnedMessage ==
    ui.shownFor # NoFetchResponse => ui.msg.text = ui.shownFor.message

\* C13 as the handler has it: the box shows the handler's own text of
\* success for an ok response whose body parses, and its own apology, of
\* type error, for every other response.
C13_ShowsOwnText ==
    ui.shownFor # NoFetchResponse =>
        IF ui.shownFor.ok /\ ui.shownFor.json
        THEN ui.msg.text = SentText /\ ui.msg.type = "success"
        ELSE ui.msg.text = SorryText /\ ui.msg.type = "error"

\* the answer 400 'Validation error' has been handled
C13_Witness ==
    /\ ui.shownFor = FetchResponse(ValidationError(<<>>), TRUE)
    /\ ui.msg.text = SorryText
    /\ ui.msg.display = "block"

\* the payloads after the sanitizers of the chains, and after a second pass
SanitizedSamples == [k \in 1..Len(Samples) |-> Sanitized(Samples[k])]

Resanitized == [k \in 1..Len(Samples) |-> Sanitized(SanitizedSamples[k])]

\* C14: the sanitizers of the chains are idempotent on a valid payload:
\* the body of a request that passed validation is the sanitized payload,
\* and the sanitizers run on it again give the same body field by field.
C14_SanitizeIdempotent ==
    \A s \in SlotSet :
        (req[s].pc \in {"handler", "sending", "done"} /\ req[s].errors = <<>>
            /\ req[s].res.status # 429) =>
            /\ req[s].body = SanitizedSamples[req[s].g.sample]
            /\ \A f \in FieldSet : Resanitized[req[s].g.sample][f] = req[s].body[f]

\* a valid payload that the sanitizers changed has been accepted
C14_Witness ==
    \E s \in SlotSet :
        /\ req[s].pc = "sending"
        /\ req[s].body # Raw(s)
        /\ req[s].body.name = Str(JaneDoe)
        /\ req[s].body.email = Str(JaneEmail)

\* C15: validation comes before the limiter: a request whose payload has
\* an invalid field is answered 400, also when its address is at the
\* ceiling, and an answer 429 is only given to a valid payload.
C15_ValidationBeforeLimiter ==
    \A s \in SlotSet :
        (Done(s) /\ ~ValidPayload(Raw(s))) =>
            /\ req[s].res.status = 400
            /\ req[s].res.status # 429

\* C16: the email transport is called once for a request that the limiter
\* let through and whose validation found no error, and not at all for a
\* request answered 400 or 429.
C16_DispatchOncePerAccepted ==
    \A s \in SlotSet :
        /\ req[s].pc \in {"idle", "validate", "handler"} => req[s].g.attempts = 0
        /\ req[s].pc = "sending" => (req[s].g.attempts = 1 /\ req[s].errors = <<>>)
        /\ Done(s) =>
              req[s].g.attempts = (IF req[s].res.status \in {400, 429} THEN 0 ELSE 1)

\* one request is being sent, another has been answered 400
C16_Witness ==
    \E s, t \in SlotSet :
        /\ req[s].pc = "sending"
        /\ req[s].g.attempts = 1
        /\ Done(t)
        /\ req[t].res.status = 400
        /\ req[t].g.attempts = 0

\* C17: a request that is being sent has had its hit counted, and while
\* it is being sent the limiter takes a new request of the same address
\* (when no other code is on the call stack and the model has a
\* connection and a hit left for it).
C17_NoLockAcrossDispatch ==
    \A s \in SlotSet :
        req[s].pc = "sending" =>
            /\ req[s].g.mutations = 1
            /\ ((\A t \in SlotSet : req[t].pc \in {"idle", "sending"})
                 /\ (\E t \in SlotSet : req[t].pc = "idle")
                 /\ LiveHits(req[s].ip, now) < Cap(req[s].ip))
                => ENABLED (\E t \in SlotSet, k \in 1..Len(Samples) :
                               Limiter(t, req[s].ip, k))

\* two requests of one address are being sent at the same time, both
\* counted
C17_Witness ==
    /\ \A s \in SlotSet : req[s].pc = "sending" /\ req[s].ip = "ip1"
    /\ store[Key("ip1")].totalHits >= 2

\* C18: the retry delay of an answer 429 is the time until the oldest
\* request of the address that was let through within the last hour is an
\* hour old; it is above zero and an hour at most.
C18_RetryAfterOldest ==
    \A s \in SlotSet :
        (Done(s) /\ req[s].res.status = 429) =>
            /\ req[s].res.retryAfter > 0
            /\ req[s].res.retryAfter <= windowMs
            /\ hist[req[s].ip].passed # <<>>
            /\ req[s].res.retryAfter = hist[req[s].ip].passed[1] + windowMs - now

\* C19: the window of an address changes only when a request of that
\* address arrives, and a request is answered 429 only when the requests
\* of its own address in its window are more than five.
C19_PerAddressIsolation ==
    /\ [][\A b \in Addrs :
            store'[b] # store[b] =>
                \E s \in SlotSet :
                    /\ req[s].pc = "idle"
                    /\ req'[s].pc # "idle"
                    /\ req'[s].ip = b]_vars
    /\ [](\A s \in SlotSet :
            (Done(s) /\ req[s].res.status = 429) =>
                /\ hist[req[s].ip].winPasses = 5
                /\ store[req[s].ip].totalHits > 5)

\* a request of the second address is answered 200 while the first
\* address is blocked
C19_Witness ==
    \E s \in SlotSet :
        /\ Done(s)
        /\ req[s].ip = "ip2"
        /\ req[s].res.status = 200
        /\ hist["ip1"].blocked
        /\ store["ip1"].totalHits > 5
        /\ store["ip2"].totalHits = 1

\* C20: a disabled submit button gets enabled again with the label it had
\* before the submit, whichever way the request ends; when no run of the
\* handler waits, the button is enabled and its label is not 'Sending...'.
C20_ButtonRestored ==
    /\ [](InFlight = {} => (~ui.btn.disabled /\ ui.btn.text = SendLabel))
    /\ [][\A i \in CallSet :
            (ui.calls[i].pc # "idle" /\ ui'.calls[i].pc = "idle") =>
                /\ ~ui'.btn.disabled
                /\ ui'.btn.text = ui.calls[i].originalBtnText]_vars
    /\ ui.btn.disabled ~> (~ui.btn.disabled /\ ui.btn.text = SendLabel)

\* the handler has ended on a body that did not parse as JSON
C20_Witness ==
    /\ ui.shownFor = FetchResponse(Response(200, FALSE, "", <<>>, 0, NoData), FALSE)
    /\ InFlight = {}
    /\ ~ui.btn.disabled
    /\ ui.btn.text = SendLabel

\* a field is empty once trimmed, or the trimmed email is not of the form
\* local@domain.tld without whitespace
ClientInvalid(form) ==
    \/ \E f \in FieldSet : Trim(form[f]) = <<>>
    \/ ~EmailRegexTest(Trim(form.email))

\* C21: a submit of a form that fails the validation of the page shows an
\* error message and starts no request, leaves the button and the inputs
\* as they are; the inputs change only when the visitor types or when an
\* ok response has been handled.
C21_NoPostOnInvalid ==
    [][/\ (Submit /\ ClientInvalid(ui.form)) =>
             /\ ui'.calls = ui.calls
             /\ ui'.btn = ui.btn
             /\ ~ui'.btn.disabled
             /\ ui'.form = ui.form
             /\ ui'.msg.type = "error"
             /\ ui'.msg.display = "block"
       /\ ui'.form # ui.form =>
             \/ \E f \in FieldSet : \E v \in FormValues(f) : Type(f, v)
             \/ \E i \in CallSet :
                    /\ ui.calls[i].pc = "json"
                    /\ ui.calls[i].response.ok
                    /\ ui'.calls[i].pc = "idle"]_vars

\* a form with a bad email was submitted: the error is shown, nothing is
\* in flight, the inputs are still filled
C21_Witness ==
    /\ ui.msg.text = EmailText
    /\ ui.msg.display = "block"
    /\ InFlight = {}
    /\ ~ui.btn.disabled
    /\ ClientInvalid(ui.form)
    /\ \A f \in FieldSet : ui.form[f] # <<>>

\* C22: a message is visible until its own hide timer fires: the timers
\* fire in the order they were set, so while a timer is pending the one
\* of the latest message is, and the box is shown; with no timer pending
\* the box is hidden.
C22_VisibleForFiveSeconds ==
    /\ ui.timers > 0 => ui.msg.display = "block"
    /\ ui.timers = 0 => ui.msg.display = "none"

\* C23: navMenu has the class 'active' exactly when navToggle has it; a
\* click outside both and a click on a nav link whose section exists
\* leave both without it.
C23_NavConsistent ==
    /\ [](ui.nav.menu = ui.nav.toggle)
    /\ [][(ClickOutside \/ \E l \in NavLinks : l.target /\ ClickLink(l)) =>
            ui'.nav = NavClosed]_vars

\* the menu is open, opened after a click on a nav link
C23_Witness ==
    /\ ui.nav.menu
    /\ ui.nav.toggle
    /\ ui.activeLink = "#about"

====
